---- MODULE Spec2Model ----
(***************************************************************************)
(* Model of gfit-b100 (src/main.py): a command-line tool that logs a       *)
(* fitness activity to a remote fitness service and cleans up today's      *)
(* records.  One invocation of the script is one run; the program is       *)
(* sequential, so a run is a chain of steps, one per remote call, each     *)
(* with the responses the remote service can give.                         *)
(*                                                                         *)
(* Strings that the code searches or compares (data source identifiers)    *)
(* are sequences of their colon-separated fields; "x in s" for a string    *)
(* is a search for x among the fields.  Python's None is the empty         *)
(* sequence for identifiers and the empty set for optional numbers.        *)
(***************************************************************************)
EXTENDS Integers, Sequences, FiniteSets, TLC

VARIABLES
    tokenFile,      \* token.json: {} when absent, else {credential}
    creds,          \* the credential object of the current run ({} = None)
    auth,           \* what get_credentials did in the current run
    pc,             \* position of the script
    cmd,            \* "log", "cleanup" or "none" (no run yet)
    args,           \* arguments of log_activity
    ids,            \* activity_source_id, calories_source_id, steps_source_id
    calls,          \* remote calls of the current run, in order, with status
    result,         \* return value of the run's top-level function
    remote,         \* the user's data on the fitness service
    wrote,          \* history: what log_activity runs wrote successfully
    sessList,       \* cleanup: sessions['session']
    dsList,         \* cleanup: data_sources_result['dataSource']
    cursor,         \* cleanup: position of the running for loop
    runs            \* number of runs started

vars == <<tokenFile, creds, auth, pc, cmd, args, ids, calls, result, remote,
          wrote, sessList, dsList, cursor, runs>>

-----------------------------------------------------------------------------
(* Bounds *)

MaxRuns == 2

-----------------------------------------------------------------------------
(* Constants of the program *)

PROJECT_NUMBER == "394921715331"

ACTIVITY == "com.google.activity.segment"
CALORIES == "com.google.calories.expended"
STEPS    == "com.google.step_count.delta"

DataTypeNames == {ACTIVITY, CALORIES, STEPS}

None == <<>>

\* HTTP statuses of a remote call: success, not found, any other error.
OK       == 200
NotFound == 404
Failure  == 500

Errors == {NotFound, Failure}

DAY == 86400

\* datetime.datetime.now(): noon of the second day after the epoch.
Now == DAY + 43200

\* today = now.replace(hour=0, minute=0, second=0, microsecond=0)
Today == (Now \div DAY) * DAY

Tomorrow == Today + DAY

\* int(t.timestamp() * 1000)
ToMs(t) == t * 1000

\* int(t.timestamp() * 1000000000) for a whole number of seconds, kept as
\* seconds and nanoseconds of the second.
ToNs(t) == [sec |-> t, nsec |-> 0]

\* f"{start_time_ns}-{end_time_ns}"
DatasetId(s, e) == <<ToNs(s), "-", ToNs(e)>>

\* f"session-{start_time_ms}"
SessionId(s) == <<"session", ToMs(s)>>

\* Python truth value of an optional number.
Truthy(x) == \E v \in x : v # 0

-----------------------------------------------------------------------------
(* Data source identifiers *)

get_data_source_id_dropname(data_type_name) ==
    <<"derived", ACTIVITY, PROJECT_NUMBER, "microcloud", "gfit-b100",
      "1000001", ACTIVITY>>

get_data_source_id(data_type_name) ==
    <<"derived", data_type_name, PROJECT_NUMBER, "microcloud", "gfit-b100",
      "1000001", data_type_name>>

\* x in s
Contains(s, x) == \E i \in DOMAIN s : s[i] = x

MatchesNamespace_or(data_source_id) ==
    Contains(data_source_id, PROJECT_NUMBER)
        \/ Contains(data_source_id, "microcloud")

\* PROJECT_NUMBER in data_source_id and "microcloud" in data_source_id
MatchesNamespace(data_source_id) ==
    Contains(data_source_id, PROJECT_NUMBER)
        /\ Contains(data_source_id, "microcloud")

-----------------------------------------------------------------------------
(* The remote account before the tool's first run: data of another          *)
(* application may be present.                                              *)

OtherProjectSource ==
    <<"raw", STEPS, PROJECT_NUMBER, "acme", "watch", "77", "steps">>

OtherDeviceSource ==
    <<"derived", "com.google.heart_rate.bpm", PROJECT_NUMBER, "microcloud",
      "band", "2", "hr">>

OtherSession == [id |-> <<"other-app-session", ToMs(Today + 3600)>>,
                 app |-> "Other App"]

EmptyRemote == [dataSources |-> {}, datasets |-> {}, sessions |-> {}]

ForeignRemote == [dataSources |-> {OtherProjectSource, OtherDeviceSource},
                  datasets |-> {},
                  sessions |-> {OtherSession}]

-----------------------------------------------------------------------------
(* Credentials *)

\* A stored credential: its access token, whether its expiry has passed,
\* and whether it has a refresh token.
StoredCredentials ==
    [token : {"None", "stored"}, expired : BOOLEAN, refresh_token : BOOLEAN]

\* creds.valid
Valid(c) == c.token # "None" /\ ~c.expired

NoAuth == [loaded |-> FALSE, refreshed |-> FALSE, flow |-> FALSE,
           saved |-> FALSE, before |-> {}]

Refreshed == [token |-> "refreshed", expired |-> FALSE, refresh_token |-> TRUE]

Acquired == [token |-> "acquired", expired |-> FALSE, refresh_token |-> TRUE]

\* The library calls of get_credentials either succeed or raise.
AuthOutcomes == {"ok", "raise"}

get_credentials_nosave(file, outcome) ==
    LET loaded == file
        invalid == loaded = {} \/ \E c \in loaded : ~Valid(c)
        refresh == \E c \in loaded : c.expired /\ c.refresh_token
        fresh == IF refresh THEN Refreshed ELSE Acquired
    IN  IF ~invalid
        THEN [creds |-> loaded, file |-> file, raised |-> FALSE,
              auth |-> [NoAuth EXCEPT !.loaded = TRUE, !.before = file]]
        ELSE IF outcome = "raise"
        THEN [creds |-> loaded, file |-> file, raised |-> TRUE,
              auth |-> [loaded |-> loaded # {}, refreshed |-> refresh,
                        flow |-> ~refresh, saved |-> FALSE, before |-> file]]
        ELSE [creds |-> {fresh}, file |-> IF refresh THEN file ELSE {fresh},
              raised |-> FALSE,
              auth |-> [loaded |-> loaded # {}, refreshed |-> refresh,
                        flow |-> ~refresh, saved |-> ~refresh,
                        before |-> file]]

\* get_credentials(): the credential it returns, the token file it leaves,
\* and what it did.  `outcome` is the outcome of creds.refresh() or of
\* flow.run_local_server(), whichever it calls.
get_credentials(file, outcome) ==
    LET loaded == file
        invalid == loaded = {} \/ \E c \in loaded : ~Valid(c)
        refresh == \E c \in loaded : c.expired /\ c.refresh_token
        fresh == IF refresh THEN Refreshed ELSE Acquired
    IN  IF ~invalid
        THEN [creds |-> loaded, file |-> file, raised |-> FALSE,
              auth |-> [NoAuth EXCEPT !.loaded = TRUE, !.before = file]]
        ELSE IF outcome = "raise"
        THEN [creds |-> loaded, file |-> file, raised |-> TRUE,
              auth |-> [loaded |-> loaded # {}, refreshed |-> refresh,
                        flow |-> ~refresh, saved |-> FALSE, before |-> file]]
        ELSE [creds |-> {fresh}, file |-> {fresh}, raised |-> FALSE,
              auth |-> [loaded |-> loaded # {}, refreshed |-> refresh,
                        flow |-> ~refresh, saved |-> TRUE, before |-> file]]

Init ==
    /\ tokenFile \in {{}} \cup {{c} : c \in StoredCredentials}
    /\ creds = {}
    /\ auth = NoAuth
    /\ pc = "idle"
    /\ cmd = "none"
    /\ args = [start |-> 0, end |-> 0, calories |-> {}, steps |-> {}]
    /\ ids = [activity |-> None, calories |-> None, steps |-> None]
    /\ calls = <<>>
    /\ result = "none"
    /\ remote \in {EmptyRemote, ForeignRemote}
    /\ wrote = [sessions |-> {}, datasets |-> {}]
    /\ sessList = <<>>
    /\ dsList = <<>>
    /\ cursor = 1
    /\ runs = 0

-----------------------------------------------------------------------------
(* Remote calls *)

Call(op, target, dataset, status) ==
    [op |-> op, target |-> target, dataset |-> dataset, status |-> status]

\* What dataSources().get() can answer for an identifier.
GetResponses(data_source_id) ==
    IF data_source_id \in remote.dataSources
    THEN {OK, Failure}
    ELSE {NotFound, Failure}

\* What any other call can answer.
Responses == {OK, NotFound, Failure}

create_data_source_anyerror(data_type_name, getStatus, createStatus) ==
    LET data_source_id == get_data_source_id(data_type_name)
        get == Call("dataSources.get", data_source_id, None, getStatus)
        create == Call("dataSources.create", data_source_id, None,
                       createStatus)
    IN  IF getStatus = OK
        THEN [ret |-> data_source_id, calls |-> <<get>>]
        ELSE IF createStatus = OK
             THEN [ret |-> data_source_id, calls |-> <<get, create>>]
             ELSE [ret |-> None, calls |-> <<get, create>>]

\* create_data_source(fitness_service, data_type_name): the value it
\* returns and the calls it makes, given the answer to the existence check
\* and the answer a creation request would get.
create_data_source(data_type_name, getStatus, createStatus) ==
    LET data_source_id == get_data_source_id(data_type_name)
        get == Call("dataSources.get", data_source_id, None, getStatus)
        create == Call("dataSources.create", data_source_id, None,
                       createStatus)
    IN  IF getStatus = OK
        THEN [ret |-> data_source_id, calls |-> <<get>>]
        ELSE IF getStatus = NotFound
        THEN IF createStatus = OK
             THEN [ret |-> data_source_id, calls |-> <<get, create>>]
             ELSE [ret |-> None, calls |-> <<get, create>>]
        ELSE [ret |-> None, calls |-> <<get>>]

\* The data sources the service holds after the calls.
Created(cs) ==
    {cs[i].target : i \in {j \in DOMAIN cs :
        cs[j].op = "dataSources.create" /\ cs[j].status = OK}}

\* x_source_id = create_data_source(fitness_service, name)
Provision(data_type_name, field) ==
    \E getStatus \in GetResponses(get_data_source_id(data_type_name)),
       createStatus \in Responses :
        LET r == create_data_source(data_type_name, getStatus, createStatus)
        IN  /\ ids' = [ids EXCEPT ![field] = r.ret]
            /\ calls' = calls \o r.calls
            /\ remote' = [remote EXCEPT
                     !.dataSources = @ \cup Created(r.calls)]

-----------------------------------------------------------------------------
(* Starting a run: the command line *)

\* --calories and --steps: absent, zero, or a positive number.
CaloriesArgs == {{}, {0}, {250}}
StepsArgs == {{}, {0}, {3500}}

\* --hours-ago
HoursAgo == {1}

\* --duration, in minutes
Duration == 30

Fresh(c) ==
    /\ runs < MaxRuns
    /\ pc = "idle"
    /\ runs' = runs + 1
    /\ cmd' = c
    /\ pc' = "get_credentials"
    /\ creds' = {}
    /\ auth' = NoAuth
    /\ ids' = [activity |-> None, calories |-> None, steps |-> None]
    /\ calls' = <<>>
    /\ result' = "none"
    /\ sessList' = <<>>
    /\ dsList' = <<>>
    /\ cursor' = 1
    /\ UNCHANGED <<tokenFile, remote, wrote>>

\* python main.py log --calories C --steps S --hours-ago H
StartLog ==
    \E c \in CaloriesArgs, s \in StepsArgs, h \in HoursAgo :
        LET end_time == Now - h * 3600
            start_time == end_time - Duration * 60
        IN  /\ Fresh("log")
            /\ args' = [start |-> start_time, end |-> end_time,
                        calories |-> c, steps |-> s]

\* python main.py cleanup
StartCleanup ==
    /\ Fresh("cleanup")
    /\ UNCHANGED args

\* credentials = get_credentials(), first statement of both commands
GetCredentials ==
    /\ pc = "get_credentials"
    /\ \E outcome \in AuthOutcomes :
        LET r == get_credentials(tokenFile, outcome)
        IN  /\ creds' = r.creds
            /\ tokenFile' = r.file
            /\ auth' = r.auth
            /\ pc' = IF r.raised THEN "idle"
                     ELSE IF cmd = "log" THEN "provision_activity"
                     ELSE "list_sessions"
            /\ result' = IF r.raised THEN "raised" ELSE result
    /\ UNCHANGED <<cmd, args, ids, calls, remote, wrote, sessList, dsList,
                   cursor, runs>>

-----------------------------------------------------------------------------
(* log_activity *)

Return(value) ==
    /\ result' = value
    /\ pc' = "idle"

ProvisionActivity ==
    /\ pc = "provision_activity"
    /\ Provision(ACTIVITY, "activity")
    /\ pc' = "provision_calories"
    /\ UNCHANGED <<tokenFile, creds, auth, cmd, args, result, wrote,
                   sessList, dsList, cursor, runs>>

\* if calories: calories_source_id = create_data_source(...)
ProvisionCalories ==
    /\ pc = "provision_calories"
    /\ IF Truthy(args.calories)
       THEN Provision(CALORIES, "calories")
       ELSE UNCHANGED <<ids, calls, remote>>
    /\ pc' = "provision_steps"
    /\ UNCHANGED <<tokenFile, creds, auth, cmd, args, result, wrote,
                   sessList, dsList, cursor, runs>>

\* if steps: steps_source_id = create_data_source(...)
\* if not activity_source_id: return False
ProvisionSteps ==
    /\ pc = "provision_steps"
    /\ IF Truthy(args.steps)
       THEN Provision(STEPS, "steps")
       ELSE UNCHANGED <<ids, calls, remote>>
    /\ IF ids.activity = None
       THEN Return("False")
       ELSE pc' = "patch_activity" /\ UNCHANGED result
    /\ UNCHANGED <<tokenFile, creds, auth, cmd, args, wrote,
                   sessList, dsList, cursor, runs>>

\* dataset_id = f"{start_time_ns}-{end_time_ns}"
dataset_id == DatasetId(args.start, args.end)

Dataset(source, id) == [source |-> source, id |-> id]

PatchDataset_continue(source_id, next) ==
    \E status \in Responses :
        /\ calls' = Append(calls,
                 Call("datasets.patch", source_id, dataset_id, status))
        /\ pc' = next
        /\ UNCHANGED result
        /\ IF status = OK
           THEN /\ remote' = [remote EXCEPT
                       !.datasets = @ \cup {Dataset(source_id, dataset_id)}]
                /\ wrote' = [wrote EXCEPT
                       !.datasets = @ \cup {Dataset(source_id, dataset_id)}]
           ELSE UNCHANGED <<remote, wrote>>

PatchDataset_rollback(source_id, next) ==
    \E status \in Responses :
        IF status = OK
        THEN /\ calls' = Append(calls,
                      Call("datasets.patch", source_id, dataset_id, status))
             /\ remote' = [remote EXCEPT
                    !.datasets = @ \cup {Dataset(source_id, dataset_id)}]
             /\ wrote' = [wrote EXCEPT
                    !.datasets = @ \cup {Dataset(source_id, dataset_id)}]
             /\ pc' = next
             /\ UNCHANGED result
        ELSE /\ calls' = calls \o
                    <<Call("datasets.patch", source_id, dataset_id, status),
                      Call("datasets.delete", ids.activity, dataset_id, OK)>>
             /\ remote' = [remote EXCEPT
                    !.datasets = @ \ {Dataset(ids.activity, dataset_id)}]
             /\ UNCHANGED wrote
             /\ result' = "False"
             /\ pc' = "idle"

\* fitness_service.users().dataSources().datasets().patch(...).execute()
\* inside the try block of log_activity: an HttpError ends the function
\* with return False.
PatchDataset(source_id, next) ==
    \E status \in Responses :
        /\ calls' = Append(calls,
                 Call("datasets.patch", source_id, dataset_id, status))
        /\ IF status = OK
           THEN /\ remote' = [remote EXCEPT
                       !.datasets = @ \cup {Dataset(source_id, dataset_id)}]
                /\ wrote' = [wrote EXCEPT
                       !.datasets = @ \cup {Dataset(source_id, dataset_id)}]
                /\ pc' = next
                /\ UNCHANGED result
           ELSE /\ UNCHANGED <<remote, wrote>>
                /\ Return("False")

PatchActivity ==
    /\ pc = "patch_activity"
    /\ PatchDataset(ids.activity, "patch_calories")
    /\ UNCHANGED <<tokenFile, creds, auth, cmd, args, ids, sessList, dsList,
                   cursor, runs>>

\* if calories and calories_source_id: ...patch(...)
PatchCalories ==
    /\ pc = "patch_calories"
    /\ IF Truthy(args.calories) /\ ids.calories # None
       THEN PatchDataset(ids.calories, "patch_steps")
       ELSE pc' = "patch_steps" /\ UNCHANGED <<calls, remote, wrote, result>>
    /\ UNCHANGED <<tokenFile, creds, auth, cmd, args, ids, sessList, dsList,
                   cursor, runs>>

\* if steps and steps_source_id: ...patch(...)
PatchSteps ==
    /\ pc = "patch_steps"
    /\ IF Truthy(args.steps) /\ ids.steps # None
       THEN PatchDataset(ids.steps, "log_session")
       ELSE pc' = "log_session" /\ UNCHANGED <<calls, remote, wrote, result>>
    /\ UNCHANGED <<tokenFile, creds, auth, cmd, args, ids, sessList, dsList,
                   cursor, runs>>

Session(id, app) == [id |-> id, app |-> app]

\* The sessions after sessions().update() of one with this id.
Upsert(sessions, s) == {x \in sessions : x.id # s.id} \cup {s}

\* log_session(fitness_service, activity_type, start_time, end_time); its
\* return value is not used by log_activity.
LogSession ==
    /\ pc = "log_session"
    /\ \E status \in Responses :
        LET id == SessionId(args.start)
        IN  /\ calls' = Append(calls, Call("sessions.update", id, None, status))
            /\ IF status = OK
               THEN /\ remote' = [remote EXCEPT !.sessions =
                           Upsert(@, Session(id, "GFit B100"))]
                    /\ wrote' = [wrote EXCEPT !.sessions = @ \cup {id}]
               ELSE UNCHANGED <<remote, wrote>>
    /\ pc' = "aggregate"
    /\ UNCHANGED <<tokenFile, creds, auth, cmd, args, ids, result, sessList,
                   dsList, cursor, runs>>

\* if steps: request_data_aggregation(...); return True
Aggregate ==
    /\ pc = "aggregate"
    /\ IF Truthy(args.steps)
       THEN \E status \in Responses :
                calls' = Append(calls,
                    Call("dataset.aggregate", None, None, status))
       ELSE UNCHANGED calls
    /\ Return("True")
    /\ UNCHANGED <<tokenFile, creds, auth, cmd, args, ids, remote, wrote,
                   sessList, dsList, cursor, runs>>

-----------------------------------------------------------------------------
(* clean_up_todays_activities *)

\* A set as the list a listing call returns it in.
SeqOf(S) ==
    CHOOSE q \in [1..Cardinality(S) -> S] : {q[i] : i \in DOMAIN q} = S

\* sessions().list(startTime=today, endTime=tomorrow): the sessions of the
\* account in today's window.  Every session of the model starts today.
ListSessions ==
    /\ pc = "list_sessions"
    /\ \E status \in Responses :
        /\ calls' = Append(calls, Call("sessions.list", None, None, status))
        /\ sessList' = IF status = OK THEN SeqOf(remote.sessions) ELSE <<>>
        /\ pc' = IF status = OK /\ remote.sessions # {}
                 THEN "delete_session" ELSE "list_data_sources"
    /\ cursor' = 1
    /\ UNCHANGED <<tokenFile, creds, auth, cmd, args, ids, result, remote,
                   wrote, dsList, runs>>

DeleteSession_break ==
    /\ pc = "delete_session"
    /\ \E status \in Responses :
        LET session_id == sessList[cursor].id
        IN  /\ calls' = Append(calls,
                     Call("sessions.delete", session_id, None, status))
            /\ remote' = IF status = OK
                         THEN [remote EXCEPT !.sessions =
                                  {x \in @ : x.id # session_id}]
                         ELSE remote
            /\ pc' = IF cursor = Len(sessList) \/ status # OK
                     THEN "list_data_sources" ELSE "delete_session"
    /\ cursor' = cursor + 1
    /\ UNCHANGED <<tokenFile, creds, auth, cmd, args, ids, result, wrote,
                   sessList, dsList, runs>>

\* One iteration of: for session in sessions['session']: ...delete(...)
DeleteSession ==
    /\ pc = "delete_session"
    /\ \E status \in Responses :
        LET session_id == sessList[cursor].id
        IN  /\ calls' = Append(calls,
                     Call("sessions.delete", session_id, None, status))
            /\ remote' = IF status = OK
                         THEN [remote EXCEPT !.sessions =
                                  {x \in @ : x.id # session_id}]
                         ELSE remote
    /\ cursor' = cursor + 1
    /\ pc' = IF cursor = Len(sessList)
             THEN "list_data_sources" ELSE "delete_session"
    /\ UNCHANGED <<tokenFile, creds, auth, cmd, args, ids, result, wrote,
                   sessList, dsList, runs>>

\* dataSources().list(userId='me'); with nothing to loop over, or on an
\* error, the function prints and returns True.
ListDataSources ==
    /\ pc = "list_data_sources"
    /\ \E status \in Responses :
        /\ calls' = Append(calls,
                 Call("dataSources.list", None, None, status))
        /\ dsList' = IF status = OK THEN SeqOf(remote.dataSources) ELSE <<>>
        /\ IF status = OK /\ remote.dataSources # {}
           THEN pc' = "delete_dataset" /\ UNCHANGED result
           ELSE Return("True")
    /\ cursor' = 1
    /\ UNCHANGED <<tokenFile, creds, auth, cmd, args, ids, remote, wrote,
                   sessList, runs>>

CleanupDatasetId_yesterday == DatasetId(Today - DAY, Today)

\* dataset_id = f"{start_time_ns}-{end_time_ns}" of today and tomorrow
CleanupDatasetId == DatasetId(Today, Tomorrow)

\* The datasets of a data source that lie in the range of a dataset id.
InRange(source, id) ==
    {d \in remote.datasets :
        /\ d.source = source
        /\ d.id[1].sec >= id[1].sec
        /\ d.id[3].sec <= id[3].sec}

\* One iteration of: for data_source in data_sources_result['dataSource'];
\* after the last one the function prints and returns True.
DeleteDataset ==
    /\ pc = "delete_dataset"
    /\ LET data_source_id == dsList[cursor]
       IN  IF MatchesNamespace(data_source_id)
           THEN \E status \in Responses :
                /\ calls' = Append(calls,
                         Call("datasets.delete", data_source_id,
                              CleanupDatasetId, status))
                /\ remote' = IF status = OK
                             THEN [remote EXCEPT !.datasets =
                                 @ \ InRange(data_source_id,
                                             CleanupDatasetId)]
                             ELSE remote
           ELSE UNCHANGED <<calls, remote>>
    /\ cursor' = cursor + 1
    /\ IF cursor = Len(dsList)
       THEN Return("True")
       ELSE pc' = "delete_dataset" /\ UNCHANGED result
    /\ UNCHANGED <<tokenFile, creds, auth, cmd, args, ids, wrote, sessList,
                   dsList, runs>>

-----------------------------------------------------------------------------

Next ==
    \/ StartLog
    \/ StartCleanup
    \/ GetCredentials
    \/ ProvisionActivity
    \/ ProvisionCalories
    \/ ProvisionSteps
    \/ PatchActivity
    \/ PatchCalories
    \/ PatchSteps
    \/ LogSession
    \/ Aggregate
    \/ ListSessions
    \/ DeleteSession
    \/ ListDataSources
    \/ DeleteDataset

Spec == Init /\ [][Next]_vars

-----------------------------------------------------------------------------
(* Vocabulary of the properties *)

CallsOf(op) == SelectSeq(calls, LAMBDA c : c.op = op)

Targets(cs) == [i \in DOMAIN cs |-> cs[i].target]

Issued(op, target) ==
    \E i \in DOMAIN calls : calls[i].op = op /\ calls[i].target = target

Succeeded(op, target) ==
    \E i \in DOMAIN calls :
        calls[i].op = op /\ calls[i].target = target /\ calls[i].status = OK

\* A call that failed with an HTTP error.  The not-found answer of the
\* existence check is the signal to create the data source, not a failure.
Failed(c) ==
    /\ c.status # OK
    /\ ~(c.op = "dataSources.get" /\ c.status = NotFound)

LogReturned == cmd = "log" /\ pc = "idle" /\ result \in {"True", "False"}

CleanupReturned == cmd = "cleanup" /\ pc = "idle" /\ result = "True"

\* The position of a call in the order of log_activity's remote calls.
Rank(c) ==
    CASE c.op \in {"dataSources.get", "dataSources.create"} ->
            (IF c.target[2] = ACTIVITY THEN 1
             ELSE IF c.target[2] = CALORIES THEN 2 ELSE 3)
      [] c.op = "datasets.patch" ->
            (IF c.target[2] = ACTIVITY THEN 4
             ELSE IF c.target[2] = CALORIES THEN 5 ELSE 6)
      [] c.op = "sessions.update" -> 7
      [] c.op = "dataset.aggregate" -> 8
      [] OTHER -> 9

-----------------------------------------------------------------------------
(* C1: log_activity returns True only when no remote call of the run failed
   with an HTTP error (provisioning, dataset patches, session update,
   aggregation request). *)
C1_TrueOnlyIfNoCallFailed ==
    (LogReturned /\ result = "True") =>
        \A i \in DOMAIN calls : ~Failed(calls[i])

(* C2: in a run of clean_up_todays_activities a dataset delete is issued
   for a data source only if its identifier contains both the project
   number and the manufacturer string "microcloud". *)
C2_DeleteOnlyInNamespace ==
    cmd = "cleanup" =>
        \A i \in DOMAIN calls :
            calls[i].op = "datasets.delete" =>
                /\ \E k \in DOMAIN calls[i].target :
                        calls[i].target[k] = "394921715331"
                /\ \E k \in DOMAIN calls[i].target :
                        calls[i].target[k] = "microcloud"

\* A cleanup that listed sources inside and outside the namespace and has
\* issued a delete for one and passed over the other.
C2_Witness ==
    /\ CleanupReturned
    /\ \E k \in DOMAIN dsList : dsList[k] = OtherProjectSource
    /\ Issued("datasets.delete", OtherDeviceSource)
    /\ ~Issued("datasets.delete", OtherProjectSource)

(* C3, as stated: every session and every dataset for which cleanup issues
   a delete is one that an earlier log_activity run of this tool wrote; a
   session of another application is never deleted. *)
C3_DeletesOnlyOwnRecords ==
    cmd = "cleanup" =>
        \A i \in DOMAIN calls :
            /\ calls[i].op = "sessions.delete" =>
                    calls[i].target \in wrote.sessions
            /\ calls[i].op = "datasets.delete" =>
                    \E d \in wrote.datasets : d.source = calls[i].target

(* C3, amended: cleanup does not look at who created a record.  Every
   session delete is for a session the listing of today's window returned,
   whichever application created it, and every dataset delete is for the
   dataset id of today's window on a listed data source whose identifier
   matches the namespace marker, whether or not log_activity wrote there. *)
C3_DeletesListedRecords ==
    cmd = "cleanup" =>
        \A i \in DOMAIN calls :
            /\ calls[i].op = "sessions.delete" =>
                    \E k \in DOMAIN sessList :
                        sessList[k].id = calls[i].target
            /\ calls[i].op = "datasets.delete" =>
                    /\ \E k \in DOMAIN dsList : dsList[k] = calls[i].target
                    /\ calls[i].dataset[1] = [sec |-> Today, nsec |-> 0]
                    /\ calls[i].dataset[3] = [sec |-> Today + DAY, nsec |-> 0]
                    /\ Contains(calls[i].target, PROJECT_NUMBER)
                    /\ Contains(calls[i].target, "microcloud")

\* Cleanup has deleted the session of the other application, and issued a
\* dataset delete for a source log_activity never wrote to.
C3_Witness ==
    /\ CleanupReturned
    /\ Succeeded("sessions.delete", OtherSession.id)
    /\ OtherSession \notin remote.sessions
    /\ OtherSession.id \notin wrote.sessions
    /\ Issued("datasets.delete", OtherDeviceSource)

(* C4: create_data_source issues a creation request if and only if the
   existence check answered 404; it returns the identifier exactly when the
   existence check or the creation request succeeded, and None otherwise. *)
C4_CreateIffNotFound ==
    cmd = "log" =>
        \A f \in {"activity", "calories", "steps"} :
            LET name == CASE f = "activity" -> ACTIVITY
                          [] f = "calories" -> CALORIES
                          [] OTHER -> STEPS
                id == get_data_source_id(name)
                gets == SelectSeq(calls,
                    LAMBDA c : c.op = "dataSources.get" /\ c.target = id)
                creates == SelectSeq(calls,
                    LAMBDA c : c.op = "dataSources.create" /\ c.target = id)
            IN  /\ Len(gets) <= 1
                /\ Len(creates) <= 1
                /\ Len(creates) = 1 <=>
                        (Len(gets) = 1 /\ gets[1].status = NotFound)
                /\ Len(gets) = 0 => ids[f] = None
                /\ Len(gets) = 1 =>
                        IF \/ gets[1].status = OK
                           \/ Len(creates) = 1 /\ creates[1].status = OK
                        THEN ids[f] = id
                        ELSE ids[f] = None

\* One run in which the three outcomes occur: found, created after a 404,
\* and given up after another error without a creation request.
C4_Witness ==
    /\ cmd = "log"
    /\ Succeeded("dataSources.get", get_data_source_id(ACTIVITY))
    /\ Succeeded("dataSources.create", get_data_source_id(CALORIES))
    /\ ids.calories = get_data_source_id(CALORIES)
    /\ Issued("dataSources.get", get_data_source_id(STEPS))
    /\ ~Issued("dataSources.create", get_data_source_id(STEPS))
    /\ ids.steps = None
    /\ pc = "patch_activity"

(* C5: get_credentials returns a valid stored token as it is, with no
   refresh, no interactive flow and no write; refreshes an expired stored
   token that has a refresh token, without the interactive flow; runs the
   interactive flow in every other case; and writes a refreshed or newly
   acquired token to the token file, so that on every return the token file
   holds the returned credential. *)
C5_CredentialLifecycle ==
    (cmd # "none" /\ pc # "get_credentials") =>
        LET before == auth.before
            returned == ~(pc = "idle" /\ result = "raised")
            storedValid == \E c \in before : c.token # "None" /\ ~c.expired
            refreshable == /\ ~storedValid
                           /\ \E c \in before : c.expired /\ c.refresh_token
        IN  /\ storedValid =>
                /\ returned
                /\ creds = before
                /\ tokenFile = before
                /\ ~auth.refreshed /\ ~auth.flow /\ ~auth.saved
            /\ refreshable =>
                /\ auth.refreshed /\ ~auth.flow
                /\ returned => \A c \in creds : c.token = "refreshed"
            /\ (~storedValid /\ ~refreshable) =>
                /\ auth.flow /\ ~auth.refreshed
                /\ returned => \A c \in creds : c.token = "acquired"
            /\ (returned /\ (auth.refreshed \/ auth.flow)) => auth.saved
            /\ returned =>
                /\ creds # {}
                /\ tokenFile = creds
                /\ \A c \in creds : c.token # "None" /\ ~c.expired

\* A run that found an expired token with a refresh token, refreshed it
\* and went on with the token file rewritten.
C5_Witness ==
    /\ pc \in {"provision_activity", "list_sessions"}
    /\ auth.refreshed
    /\ \E c \in auth.before : c.expired /\ c.refresh_token
    /\ tokenFile = {Refreshed}
    /\ tokenFile # auth.before

(* C6: the remote calls of a log_activity run occur in the order
   provisioning of activity, calories, steps; activity, calories and steps
   dataset patch; session creation; aggregation request.  None of the
   patches, the session creation or the aggregation request is issued unless
   the activity data source was provisioned successfully, and the session is
   created only after every dataset patch attempted in the run succeeded. *)
C6_CallOrder ==
    cmd = "log" =>
        /\ \A i, j \in DOMAIN calls :
                i < j =>
                    /\ Rank(calls[i]) <= Rank(calls[j])
                    /\ Rank(calls[i]) >= 4 => Rank(calls[i]) < Rank(calls[j])
                    /\ Rank(calls[i]) = Rank(calls[j]) =>
                            /\ calls[i].op = "dataSources.get"
                            /\ calls[j].op = "dataSources.create"
        /\ \A j \in DOMAIN calls :
                /\ Rank(calls[j]) <= 8
                /\ Rank(calls[j]) >= 4 =>
                        \E i \in 1..(j - 1) :
                            /\ Rank(calls[i]) = 1
                            /\ calls[i].status = OK
                /\ calls[j].op = "sessions.update" =>
                        \A i \in DOMAIN calls :
                            calls[i].op = "datasets.patch" =>
                                i < j /\ calls[i].status = OK

\* A run that made every kind of call, creating all three data sources.
C6_Witness ==
    /\ LogReturned
    /\ Len(calls) = 11
    /\ \A r \in 1..8 : \E i \in DOMAIN calls : Rank(calls[i]) = r

(* C7: an aggregation request is issued only if a steps dataset patch was
   issued and succeeded earlier in the same run. *)
C7_AggregateOnlyAfterStepsPatch ==
    cmd = "log" =>
        \A j \in DOMAIN calls :
            calls[j].op = "dataset.aggregate" =>
                \E i \in 1..(j - 1) :
                    /\ calls[i].op = "datasets.patch"
                    /\ calls[i].target[2] = STEPS
                    /\ calls[i].status = OK

(* C8: clean_up_todays_activities attempts a delete exactly once for every
   session the session listing returned and for every namespace-matching
   data source the data source listing returned, whatever HTTP errors the
   deletes get; a failed session listing does not prevent the data source
   phase; the routine never stops half way and returns True. *)
C8_CleanupSkipsFailures ==
    cmd = "cleanup" =>
        /\ (pc = "idle" /\ result # "raised") =>
            /\ result = "True"
            /\ Len(CallsOf("sessions.list")) = 1
            /\ Len(CallsOf("dataSources.list")) = 1
            /\ Targets(CallsOf("sessions.delete"))
                    = [i \in DOMAIN sessList |-> sessList[i].id]
            /\ Targets(CallsOf("datasets.delete"))
                    = SelectSeq(dsList, LAMBDA d :
                          /\ Contains(d, PROJECT_NUMBER)
                          /\ Contains(d, "microcloud"))
        /\ pc # "idle" =>
                ENABLED (GetCredentials \/ ListSessions \/ DeleteSession
                            \/ ListDataSources \/ DeleteDataset)

\* A finished cleanup in which the first of two session deletes failed and
\* two dataset deletes failed, one with not-found and one otherwise.
C8_Witness ==
    /\ CleanupReturned
    /\ Len(sessList) = 2
    /\ CallsOf("sessions.delete")[1].status = Failure
    /\ \E i \in DOMAIN calls :
            calls[i].op = "datasets.delete" /\ calls[i].status = NotFound
    /\ \E i \in DOMAIN calls :
            calls[i].op = "datasets.delete" /\ calls[i].status = Failure

(* C9: log_activity issues no delete or other compensating call, so every
   data source, dataset and session written by a call of the run is still in
   the remote state when log_activity returns. *)
C9_NoRollback ==
    cmd = "log" =>
        \A i \in DOMAIN calls :
            /\ calls[i].op \notin {"sessions.delete", "datasets.delete"}
            /\ calls[i].status = OK =>
                /\ calls[i].op = "dataSources.create" =>
                        calls[i].target \in remote.dataSources
                /\ calls[i].op = "datasets.patch" =>
                        [source |-> calls[i].target, id |-> calls[i].dataset]
                            \in remote.datasets
                /\ calls[i].op = "sessions.update" =>
                        \E x \in remote.sessions : x.id = calls[i].target

\* A run that returned False because the steps patch failed after the
\* activity and calories patches had succeeded.
C9_Witness ==
    /\ LogReturned
    /\ result = "False"
    /\ Len(CallsOf("datasets.patch")) = 3
    /\ CallsOf("datasets.patch")[1].status = OK
    /\ CallsOf("datasets.patch")[2].status = OK
    /\ CallsOf("datasets.patch")[3].status = Failure
    /\ [source |-> ids.activity, id |-> dataset_id] \in remote.datasets
    /\ [source |-> ids.calories, id |-> dataset_id] \in remote.datasets

(* C10: the identifier of a data-type name is built from the name and the
   fixed constants only, two different names give two different
   identifiers, and the identifier create_data_source checks for, creates
   and returns is this identifier. *)
C10_StableIdentifier ==
    /\ \A a, b \in DataTypeNames :
            a # b => get_data_source_id(a) # get_data_source_id(b)
    /\ \A a \in DataTypeNames :
            LET id == get_data_source_id(a)
            IN  /\ Len(id) = 7
                /\ id[2] = a /\ id[7] = a
                /\ id[1] = "derived"
                /\ id[3] = "394921715331"
                /\ id[4] = "microcloud"
                /\ id[5] = "gfit-b100"
                /\ id[6] = "1000001"
    /\ cmd = "log" =>
        /\ ids.activity \in {None, get_data_source_id(ACTIVITY)}
        /\ ids.calories \in {None, get_data_source_id(CALORIES)}
        /\ ids.steps \in {None, get_data_source_id(STEPS)}
        /\ pc = "provision_calories" =>
                \A i \in DOMAIN calls :
                    calls[i].target = get_data_source_id(ACTIVITY)
        /\ \A i \in DOMAIN calls :
                calls[i].op \in {"dataSources.get", "dataSources.create"} =>
                    \E a \in DataTypeNames :
                        calls[i].target = get_data_source_id(a)

\* A run that provisioned the three data sources and holds three different
\* identifiers.
C10_Witness ==
    /\ cmd = "log"
    /\ pc = "patch_activity"
    /\ ids.activity # None /\ ids.calories # None /\ ids.steps # None
    /\ Cardinality({ids.activity, ids.calories, ids.steps}) = 3
    /\ Len(CallsOf("dataSources.create")) = 3

====
